---- MODULE Spec2Model ----
(***************************************************************************)
(* Synthetic UPI transaction generator (upi_test/Untitled-1.py).           *)
(*                                                                         *)
(* The pipeline is generate_synthetic_transactions, then                   *)
(* add_sequential_patterns, then DataFrame.to_csv.  The two seeded         *)
(* generators (random / numpy.random, seeded at import) are modelled by    *)
(* the sequence of values they yield, fixed when the seed is set; the      *)
(* seeded DataFrame.sample is modelled by a memo from group length to the  *)
(* positions it picks.  The wall clock and the per-process string-hash     *)
(* salt are inputs of each run.                                            *)
(*                                                                         *)
(* Units: amounts drawn in thousandths of a rupee and stored in paise      *)
(* after round(amount, 2); timestamps in seconds; uniform and normal       *)
(* variates in thousandths.  Products are taken divisor first so that      *)
(* every intermediate value stays below 2^31.                              *)
(***************************************************************************)
EXTENDS Integers, Sequences, FiniteSets, TLC

VARIABLES
    FRAUD_RATE,     \* config.FRAUD_RATE, in thousandths
    stream,         \* what the generators seeded with RANDOM_STATE yield, one draw record per loop turn
    sampleOf,       \* sample(frac, random_state=RANDOM_STATE): group length -> positions picked
    clock,          \* the wall clock
    salt,           \* the string-hash salt of the running process
    run,            \* 1: first run of the script, 2: an independent second run
    pass,           \* 1: first call of add_sequential_patterns, 2: a second call on its result
    pc,             \* control point
    i,              \* loop variable of generate_synthetic_transactions
    now,            \* end_date
    data,           \* the list of transaction dicts
    df,             \* the DataFrame (row k of the frame is df[k+1])
    df_in,          \* the frame as passed to the running add_sequential_patterns call
    users,          \* df['user_id'].unique()[:100]
    ui,             \* position of the user loop in users (1-based)
    fraud_indices,  \* every index the running call has written at lines 96-97
    micropay_indices, \* every index the running call has written at lines 107-108
    ret1,           \* the frame returned by the first call of add_sequential_patterns
    out,            \* the CSV rows written by this run
    out1            \* the CSV rows written by the first run

vars == <<FRAUD_RATE, stream, sampleOf, clock, salt, run, pass, pc, i, now, data,
          df, df_in, users, ui, fraud_indices, micropay_indices, ret1, out, out1>>

(***************************************************************************)
(* Program constants                                                       *)
(***************************************************************************)
NumUsers == 1000
NumRecipients == 500
FrequentContacts == 50
WindowDays == 90
SecondsPerDay == 86400
Window == WindowDays * SecondsPerDay
UserAvgBase == 1000
ExpScale == 9000
MinAmount == 10
MaxAmount == 100000
FrequentProb == 800
VelocityLow == 5000
VelocityHigh == 50000
NewRecipientLow == 3
NewRecipientHigh == 10
RefundLow == 1000
RefundHigh == 20000
TrackedUsers == 100
MinTxns == 10
SampleFracDen == 10
SmallAmount == 10
LargeAmount == 10000
MaxGap == 300
DeviceBuckets == 100

MicropayAmounts == <<1, 2, 5, 10>>
FraudTypes == <<"micropay_scam", "velocity_attack", "new_recipient", "fake_refund">>
TransactionTypes == <<"P2P", "P2M", "Recharge", "Bill Payment">>
Locations == <<"Delhi", "Mumbai", "Bangalore", "Chennai", "Kolkata", "Hyderabad">>
Columns == <<"transaction_id", "user_id", "timestamp", "amount", "recipient_id",
             "transaction_type", "device_id", "location", "is_fraud", "fraud_type">>

(***************************************************************************)
(* Arithmetic and formatting helpers                                       *)
(***************************************************************************)
Unit == 10 * 100        \* one, in thousandths
FracDen == Window       \* random.random() is drawn in units of 1 / FracDen
Paise == 10 * 10        \* paise per rupee: round(amount, 2)
HashMod == 2 ^ 16       \* width kept of the string hash

Min(a, b) == IF a <= b THEN a ELSE b
Max(a, b) == IF a >= b THEN a ELSE b

\* round-half-to-even of x / d (Python 3 round)
RoundHalfEven(x, d) ==
    LET q == x \div d
        rem == x % d
    IN  IF 2 * rem < d THEN q
        ELSE IF 2 * rem > d THEN q + 1
        ELSE IF q % 2 = 0 THEN q ELSE q + 1

\* round(amount, 2): thousandths of a rupee to paise
Round2(x) == RoundHalfEven(x, Unit \div Paise)

RECURSIVE Digits(_)
Digits(n) == IF n < 10 THEN <<n>> ELSE Append(Digits(n \div 10), n % 10)

RECURSIVE Zeros(_)
Zeros(k) == IF k <= 0 THEN <<>> ELSE <<0>> \o Zeros(k - 1)

\* f'{n:0wd}' for n >= 0
ZeroPad(n, w) == Zeros(w - Len(Digits(n))) \o Digits(n)

UserId(u) == <<"USER_">> \o ZeroPad(u, 4)
RecipientId(r) == <<"RECIP_">> \o ZeroPad(r, 4)
\* TxnId numbering the rows from 1
TxnIdFromOne(n) == <<"TXN_">> \o ZeroPad(n + 1, 8)

\* line 70: f'TXN_{i:08d}'
TxnId(n) == <<"TXN_">> \o ZeroPad(n, 8)

\* the salted string hash of a formatted id (CPython keys its string hash with a
\* per-process salt); a polynomial hash stands in for it
RECURSIVE HashFrom(_, _, _)
HashFrom(h, s, k) ==
    IF k > Len(s) THEN h
    ELSE HashFrom((h * 31 + s[k] + 1) % HashMod, s, k + 1)

StrHash(s, id) == HashFrom(s, id, 2)

DeviceId(s, id) == <<"DEV_">> \o ZeroPad(StrHash(s, id) % DeviceBuckets, 3)

(***************************************************************************)
(* generate_synthetic_transactions: one loop turn                          *)
(***************************************************************************)
\* np.random.uniform(low, high) = low + (high - low) * x, x in [0, 1)
Uniform(low, high, x) == low + ((high - low) \div Unit) * x

\* IsFraud with the comparison made inclusive
IsFraudInclusive(r, rate) == r <= rate

\* line 34: is_fraud = random.random() < FRAUD_RATE
IsFraud(r, rate) == r < rate

\* line 37: user_avg = 1000 + np.random.exponential(9000)
UserAvg(s) == UserAvgBase * Unit + ExpScale * s

\* lines 48-55: the amount of a fraudulent transaction, by archetype
FraudAmount(ftype, d) ==
    IF ftype = "micropay_scam" THEN MicropayAmounts[d.mp] * Unit
    ELSE IF ftype = "velocity_attack"
        THEN Uniform(VelocityLow * Unit, VelocityHigh * Unit, d.x)
    ELSE IF ftype = "new_recipient"
        THEN (UserAvg(d.s) \div Unit) * Uniform(NewRecipientLow * Unit, NewRecipientHigh * Unit, d.x)
    ELSE Uniform(RefundLow * Unit, RefundHigh * Unit, d.x)

\* LegitAmount without the floor max(10, .)
LegitAmountNoFloor(d) ==
    LET user_avg == UserAvg(d.s)
        normal == user_avg + (user_avg \div (3 * Unit)) * d.z
    IN  Min(normal, MaxAmount * Unit)

\* lines 61-62: np.random.normal(user_avg, user_avg/3) clamped to [10, 100000]
LegitAmount(d) ==
    LET user_avg == UserAvg(d.s)
        normal == user_avg + (user_avg \div (3 * Unit)) * d.z
    IN  Min(Max(MinAmount * Unit, normal), MaxAmount * Unit)

\* lines 57, 64-67
Recipient(is_fraud, d) ==
    IF is_fraud THEN RecipientId(d.rc)
    ELSE IF d.q < FrequentProb THEN RecipientId(((d.rc - 1) % FrequentContacts) + 1)
    ELSE RecipientId(d.rc)

\* line 31: start_date + (end_date - start_date) * random.random()
Timestamp(nw, f) == (nw - Window) + (Window \div FracDen) * f

\* lines 29-80: the dict built in loop turn n from draw d
Transaction(n, d, nw, slt, rate) ==
    LET is_fraud == IsFraud(d.r, rate)
        fraud_type == FraudTypes[d.ft]
        amount == IF is_fraud THEN FraudAmount(fraud_type, d) ELSE LegitAmount(d)
    IN  [transaction_id |-> TxnId(n),
         user_id |-> UserId(d.u),
         timestamp |-> Timestamp(nw, d.f),
         amount |-> Round2(amount),
         recipient_id |-> Recipient(is_fraud, d),
         transaction_type |-> TransactionTypes[d.tt],
         device_id |-> DeviceId(slt, UserId(d.u)),
         location |-> Locations[d.loc],
         is_fraud |-> IF is_fraud THEN 1 ELSE 0,
         fraud_type |-> IF is_fraud THEN fraud_type ELSE "legitimate"]

(***************************************************************************)
(* The inputs explored: seeds (as the streams they yield), FRAUD_RATE,     *)
(* clocks and hash salts                                                   *)
(***************************************************************************)
MaxN == 2           \* longest stream built from RichDraws
MaxGroup == 11      \* most transactions of one user in a patterned stream
MaxRerun == 2       \* a second run of the script is explored for n_samples up to this
Salts == {1, 2}     \* hash salts explored
Epoch == Window     \* the clock of the first run (start_date is then 0)
Tick == SecondsPerDay \div 24
FraudRates == {0, Unit \div 20, Unit}

Draw(u, f, r, s, ft, mp, x, z, q, rc, tt, loc) ==
    [u |-> u, f |-> f, r |-> r, s |-> s, ft |-> ft, mp |-> mp, x |-> x, z |-> z,
     q |-> q, rc |-> rc, tt |-> tt, loc |-> loc]

\* three profiles of the variates: the low ends, mid values, the high ends
Profile(k, r, ft) ==
    IF k = 1 THEN Draw(1, 0, r, 0, ft, 1, 0, 0 - 4 * Unit, 0, 1, 1, 1)
    ELSE IF k = 2 THEN Draw(1, Window \div 2, r, Unit, ft, 3, Unit \div 2, 0,
                            FrequentProb - 1, FrequentContacts + 1, 2, 3)
    ELSE Draw(NumUsers, Window - 1, r, 12 * Unit, ft, 4, Unit - 1, 3 * Unit,
              FrequentProb, NumRecipients, 4, 6)

RichDraws ==
    {Profile(k, 0, ft) : k \in {1, 3}, ft \in 1..4}
        \cup {Profile(k, Unit - 1, k) : k \in 1..3}

RECURSIVE SeqsUpTo(_, _)
SeqsUpTo(S, n) ==
    IF n = 0 THEN {<<>>}
    ELSE LET shorter == SeqsUpTo(S, n - 1)
         IN  shorter \cup {Append(t, e) : t \in {t \in shorter : Len(t) = n - 1}, e \in S}

ShortStreams == SeqsUpTo(RichDraws, MaxN)

\* patterned streams: the rows of user UserA are fillers (legitimate, amount
\* 1000.00) but for two rows adjacent in the user's index order, the pair at
\* ranks p, p+1
UserA == NumUsers
UserB == NumUsers - 1
PairTime == 5000
Gaps == {120, MaxGap, MaxGap + 1, 0 - 400}

Filler(u, k) == Draw(u, 100000 + 1000 * k, Unit \div 2, 0, 4, 1, 0, 0, 0, 1, 1, 1)

\* first of the pair: "small" is 5.00 (micropay_scam) when fraudulent and the
\* floor 10.00 when legitimate; "above" is 10.99 when legitimate
First(kind, u) ==
    IF kind = "small" THEN Draw(u, PairTime, 0, 0, 1, 3, 0, 0 - 4 * Unit, 0, 1, 1, 1)
    ELSE Draw(u, PairTime, Unit - 1, 0, 4, 1, 0, 0 - 2970, 0, 1, 1, 1)

\* second of the pair: "large" is 10003.33 when legitimate, "exact" is 10000.00,
\* "velocity" is a velocity_attack of 27500.00 when fraudulent
Second(kind, u, gap) ==
    IF kind = "large" THEN Draw(u, PairTime + gap, Unit - 1, Unit, 2, 1, Unit \div 2, 1, 0, 1, 2, 2)
    ELSE IF kind = "exact" THEN Draw(u, PairTime + gap, Unit - 1, Unit, 4, 1, 0, 0, 0, 1, 2, 2)
    ELSE Draw(u, PairTime + gap, 0, Unit, 2, 1, Unit \div 2, 1, 0, 1, 2, 2)

Rank(layout, k) == Cardinality({j \in 1..(k - 1) : layout[j] = layout[k]})

Patterned(layout, p, fk, sk, gap) ==
    [k \in 1..Len(layout) |->
        IF layout[k] = UserA /\ Rank(layout, k) = p THEN First(fk, UserA)
        ELSE IF layout[k] = UserA /\ Rank(layout, k) = p + 1 THEN Second(sk, UserA, gap)
        ELSE Filler(layout[k], k)]

Rep(u, n) == [k \in 1..n |-> u]
Fill(n) == [k \in 1..n |-> k]

SmallLayouts ==
    {Rep(UserA, g) : g \in MinTxns..MaxGroup}
        \cup {<<UserA, UserB>> \o Rep(UserA, MinTxns)}

\* UserA is the 100th distinct user of the frame, UserB the 101st
BigLayouts ==
    {Fill(TrackedUsers - 1) \o Rep(UserA, MinTxns + 1) \o Rep(UserB, MinTxns + 1)}

Count(layout, u) == Cardinality({k \in 1..Len(layout) : layout[k] = u})

\* the pairs tried: every gap on a qualifying pair of amounts, and each way of
\* missing the amount conditions
Pairs ==
    {<<"small", "large", gap>> : gap \in Gaps}
        \cup {<<"small", "velocity", 120>>, <<"small", "exact", 120>>, <<"above", "large", 120>>}

\* the pair is the user's first pair, the second, or the last
PatternedStreams ==
    UNION {{Patterned(l, p, pr[1], pr[2], pr[3]) :
                p \in {0, 1, Count(l, UserA) - 2}, pr \in Pairs} : l \in SmallLayouts}
    \cup {Patterned(l, 1, "small", "large", 120) : l \in BigLayouts}

Streams == ShortStreams \cup PatternedStreams

(***************************************************************************)
(* State after import: the generators are seeded (lines 10-11)             *)
(***************************************************************************)
NoFrame == <<>>
EmptyMemo == [n \in {} |-> {}]

Init ==
    /\ FRAUD_RATE \in FraudRates
    /\ stream \in Streams
    /\ sampleOf = EmptyMemo
    /\ clock = Epoch
    /\ salt \in Salts
    /\ run = 1
    /\ pass = 1
    /\ pc = "main"
    /\ i = 0
    /\ now = 0
    /\ data = <<>>
    /\ df = NoFrame
    /\ df_in = NoFrame
    /\ users = <<>>
    /\ ui = 1
    /\ fraud_indices = {}
    /\ micropay_indices = {}
    /\ ret1 = NoFrame
    /\ out = <<>>
    /\ out1 = <<>>

\* n_samples: the script asks for as many rows as the stream under study holds
n_samples == Len(stream)

(***************************************************************************)
(* generate_synthetic_transactions                                         *)
(***************************************************************************)
\* lines 13-26
GenStart ==
    /\ pc = "main"
    /\ now' = clock
    /\ data' = <<>>
    /\ i' = 0
    /\ pc' = "gen"
    /\ UNCHANGED <<FRAUD_RATE, stream, sampleOf, clock, salt, run, pass, df, df_in,
                   users, ui, fraud_indices, micropay_indices, ret1, out, out1>>

\* lines 28-82
GenerateTxn ==
    /\ pc = "gen"
    /\ i < n_samples
    /\ data' = Append(data, Transaction(i, stream[i + 1], now, salt, FRAUD_RATE))
    /\ i' = i + 1
    /\ UNCHANGED <<FRAUD_RATE, stream, sampleOf, clock, salt, run, pass, pc, now, df,
                   df_in, users, ui, fraud_indices, micropay_indices, ret1, out, out1>>

\* lines 84-85 and 114
GenReturn ==
    /\ pc = "gen"
    /\ i = n_samples
    /\ df' = data
    /\ data' = <<>>
    /\ pc' = "inj"
    /\ UNCHANGED <<FRAUD_RATE, stream, sampleOf, clock, salt, run, pass, i, now,
                   df_in, users, ui, fraud_indices, micropay_indices, ret1, out, out1>>

(***************************************************************************)
(* add_sequential_patterns                                                 *)
(***************************************************************************)
\* df['user_id'].unique(): the distinct values in order of first appearance
RECURSIVE UniqueFrom(_, _, _)
UniqueFrom(frame, k, seen) ==
    IF k > Len(frame) THEN seen
    ELSE IF \E j \in 1..Len(seen) : seen[j] = frame[k].user_id
        THEN UniqueFrom(frame, k + 1, seen)
    ELSE UniqueFrom(frame, k + 1, Append(seen, frame[k].user_id))

\* FirstUsers without the [:100] slice
AllUsers(frame) == UniqueFrom(frame, 1, <<>>)

\* line 89: df['user_id'].unique()[:100]
FirstUsers(frame) ==
    LET all == UniqueFrom(frame, 1, <<>>)
    IN  SubSeq(all, 1, Min(Len(all), TrackedUsers))

\* df[user_mask].index: the indices (from 0) of the user's rows, ascending
RECURSIVE IndexFrom(_, _, _)
IndexFrom(frame, user, k) ==
    IF k > Len(frame) THEN <<>>
    ELSE IF frame[k].user_id = user THEN <<k - 1>> \o IndexFrom(frame, user, k + 1)
    ELSE IndexFrom(frame, user, k + 1)

\* lines 92 and 100
UserIndices(frame, user) == IndexFrom(frame, user, 1)

\* SampleFrame restricted to the rows not yet flagged
SampleFrameUnflagged(frame, user) ==
    SelectSeq(UserIndices(frame, user), LAMBDA idx : frame[idx + 1].is_fraud = 0)

\* line 95: the rows sample() draws from, df[user_mask]
SampleFrame(frame, user) == UserIndices(frame, user)

\* SampleSize with frac = 0.01
SampleSizePercent(len) == RoundHalfEven(len, SampleFracDen * SampleFracDen)

\* line 95: sample(frac=0.1) draws round(0.1 * len) rows
SampleSize(len) == RoundHalfEven(len, SampleFracDen)

RECURSIVE KSubsets(_, _)
KSubsets(S, n) ==
    IF n = 0 THEN {{}}
    ELSE UNION {{T \cup {e} : T \in KSubsets({x \in S : x > e}, n - 1)} : e \in S}

\* Relabel without the assignment to is_fraud
RelabelTypeOnly(frame, idxs, ftype) ==
    [k \in 1..Len(frame) |->
        IF (k - 1) \in idxs THEN [frame[k] EXCEPT !.fraud_type = ftype] ELSE frame[k]]

\* lines 96-97 and 107-108: df.loc[idx, 'is_fraud'] = 1; df.loc[idx, 'fraud_type'] = ftype
Relabel(frame, idxs, ftype) ==
    [k \in 1..Len(frame) |->
        IF (k - 1) \in idxs
        THEN [frame[k] EXCEPT !.is_fraud = 1, !.fraud_type = ftype]
        ELSE frame[k]]

\* lines 104-106
MicropayPair(frame, idx1, idx2) ==
    /\ frame[idx1 + 1].amount <= SmallAmount * Paise
    /\ frame[idx2 + 1].amount > LargeAmount * Paise
    /\ frame[idx2 + 1].timestamp - frame[idx1 + 1].timestamp <= MaxGap

\* line 102: range(1, len(user_indices) - 1)
ScanRange(len) == 1..(len - 2)

\* lines 101-108: the loop, turn by turn; the frame after it
RECURSIVE MicropayLoop(_, _, _, _)
MicropayLoop(frame, user_indices, turns, k) ==
    IF k \notin turns THEN frame
    ELSE LET idx1 == user_indices[k + 1]
             idx2 == user_indices[k + 2]
             after == IF MicropayPair(frame, idx1, idx2)
                      THEN Relabel(frame, {idx2}, "micropay_scam")
                      ELSE frame
         IN  MicropayLoop(after, user_indices, turns, k + 1)

MicropayScan(frame, user_indices) ==
    IF Len(user_indices) > 2
    THEN MicropayLoop(frame, user_indices, ScanRange(Len(user_indices)), 1)
    ELSE frame

\* the indices lines 107-108 write in the scan of a frame
MicropayHits(frame, user_indices) ==
    IF Len(user_indices) > 2
    THEN {user_indices[k + 2] : k \in {t \in ScanRange(Len(user_indices)) :
                MicropayPair(frame, user_indices[t + 1], user_indices[t + 2])}}
    ELSE {}

\* line 89; on the column-less frame of an empty list df['user_id'] raises KeyError
InjStart ==
    /\ pc = "inj"
    /\ IF df = <<>>
       THEN /\ pc' = "KeyError"
            /\ UNCHANGED <<users, ui, df_in, fraud_indices, micropay_indices>>
       ELSE /\ users' = FirstUsers(df)
            /\ ui' = 1
            /\ df_in' = df
            /\ fraud_indices' = {}
            /\ micropay_indices' = {}
            /\ pc' = "user"
    /\ UNCHANGED <<FRAUD_RATE, stream, sampleOf, clock, salt, run, pass, i, now, data,
                   df, ret1, out, out1>>

\* lines 91-93, the user has at most 10 rows
InjSkipUser ==
    /\ pc = "user"
    /\ ui <= Len(users)
    /\ Len(UserIndices(df, users[ui])) <= MinTxns
    /\ ui' = ui + 1
    /\ UNCHANGED <<FRAUD_RATE, stream, sampleOf, clock, salt, run, pass, pc, i, now,
                   data, df, df_in, users, fraud_indices, micropay_indices, ret1, out, out1>>

\* lines 91-97; sample(random_state=RANDOM_STATE) picks positions that depend on
\* the seed and the length of the group alone
InjVelocity ==
    /\ pc = "user"
    /\ ui <= Len(users)
    /\ Len(UserIndices(df, users[ui])) > MinTxns
    /\ LET rows == SampleFrame(df, users[ui])
           len == Len(rows)
       IN  \E S \in KSubsets(0..(len - 1), SampleSize(len)) :
             /\ len \in DOMAIN sampleOf => S = sampleOf[len]
             /\ sampleOf' = (len :> S) @@ sampleOf
             /\ LET picked == {rows[k + 1] : k \in S}
                IN  /\ df' = Relabel(df, picked, "velocity_attack")
                    /\ fraud_indices' = fraud_indices \cup picked
    /\ pc' = "micropay"
    /\ UNCHANGED <<FRAUD_RATE, stream, clock, salt, run, pass, i, now, data, df_in,
                   users, ui, micropay_indices, ret1, out, out1>>

\* lines 99-108
InjMicropay ==
    /\ pc = "micropay"
    /\ LET user_indices == UserIndices(df, users[ui])
       IN  /\ df' = MicropayScan(df, user_indices)
           /\ micropay_indices' = micropay_indices \cup MicropayHits(df, user_indices)
    /\ ui' = ui + 1
    /\ pc' = "user"
    /\ UNCHANGED <<FRAUD_RATE, stream, sampleOf, clock, salt, run, pass, i, now, data,
                   df_in, users, fraud_indices, ret1, out, out1>>

\* line 110
InjReturn ==
    /\ pc = "user"
    /\ ui > Len(users)
    /\ pc' = "ret"
    /\ ret1' = IF pass = 1 THEN df ELSE ret1
    /\ UNCHANGED <<FRAUD_RATE, stream, sampleOf, clock, salt, run, pass, i, now, data,
                   df, df_in, users, ui, fraud_indices, micropay_indices, out, out1>>

\* a second call of add_sequential_patterns, on the frame the first returned
Reapply ==
    /\ pc = "ret"
    /\ pass = 1
    /\ pass' = 2
    /\ pc' = "inj"
    /\ UNCHANGED <<FRAUD_RATE, stream, sampleOf, clock, salt, run, i, now, data, df,
                   df_in, users, ui, fraud_indices, micropay_indices, ret1, out, out1>>

(***************************************************************************)
(* __main__: the CSV, and an independent second run                        *)
(***************************************************************************)
\* line 120: to_csv(index=False): the header, then one line per row
ToCsv(frame) ==
    <<Columns>> \o
    [k \in 1..Len(frame) |->
        <<frame[k].transaction_id, frame[k].user_id, frame[k].timestamp, frame[k].amount,
          frame[k].recipient_id, frame[k].transaction_type, frame[k].device_id,
          frame[k].location, frame[k].is_fraud, frame[k].fraud_type>>]

\* lines 117-120
WriteCsv ==
    /\ pc = "ret"
    /\ pass = 1
    /\ out' = ToCsv(df)
    /\ pc' = "done"
    /\ UNCHANGED <<FRAUD_RATE, stream, sampleOf, clock, salt, run, pass, i, now, data,
                   df, df_in, users, ui, fraud_indices, micropay_indices, ret1, out1>>

\* the script is started again: same config (seed, FRAUD_RATE, N), a new process
\* (new hash salt) and the clock wherever it now stands
Rerun ==
    /\ pc = "done"
    /\ run = 1
    /\ n_samples <= MaxRerun
    /\ run' = 2
    /\ out1' = out
    /\ out' = <<>>
    /\ salt' \in Salts
    /\ clock' \in {clock, clock + Tick}
    /\ pc' = "main"
    /\ pass' = 1
    /\ i' = 0
    /\ df' = NoFrame
    /\ df_in' = NoFrame
    /\ users' = <<>>
    /\ ui' = 1
    /\ fraud_indices' = {}
    /\ micropay_indices' = {}
    /\ ret1' = NoFrame
    /\ UNCHANGED <<FRAUD_RATE, stream, sampleOf, now, data>>

Next ==
    \/ GenStart
    \/ GenerateTxn
    \/ GenReturn
    \/ InjStart
    \/ InjSkipUser
    \/ InjVelocity
    \/ InjMicropay
    \/ InjReturn
    \/ Reapply
    \/ WriteCsv
    \/ Rerun

Spec == Init /\ [][Next]_vars

(***************************************************************************)
(* Vocabulary of the properties, stated on frames without the operators    *)
(* of the model above                                                      *)
(***************************************************************************)
Archetypes == {"micropay_scam", "velocity_attack", "new_recipient", "fake_refund"}

RowsOf(frame, u) == {k \in 1..Len(frame) : frame[k].user_id = u}
UsersOf(frame) == {frame[k].user_id : k \in 1..Len(frame)}
FirstRow(frame, u) == CHOOSE k \in RowsOf(frame, u) : \A j \in RowsOf(frame, u) : k <= j

\* how many distinct users the frame holds before the first row of u
EncounterRank(frame, u) ==
    Cardinality({frame[j].user_id : j \in 1..(FirstRow(frame, u) - 1)})

\* u is among the first 100 distinct users and has more than 10 rows
Tracked(frame, u) ==
    /\ Cardinality(RowsOf(frame, u)) > 10
    /\ EncounterRank(frame, u) < 100

TrackedOf(frame) == {u \in UsersOf(frame) : Tracked(frame, u)}

\* rows a < b of one user with no row of that user between them
AdjacentPairs(frame, u) ==
    {pr \in RowsOf(frame, u) \X RowsOf(frame, u) :
        /\ pr[1] < pr[2]
        /\ \A c \in RowsOf(frame, u) : ~(pr[1] < c /\ c < pr[2])}

Abs(x) == IF x < 0 THEN 0 - x ELSE x

\* amount <= 10, amount > 10000 (in paise), timestamps within 300 seconds
Qualifies(frame, a, b) ==
    /\ frame[a].amount <= 10 * 100
    /\ frame[b].amount > 10000 * 100
    /\ Abs(frame[b].timestamp - frame[a].timestamp) <= 300

\* the first call of add_sequential_patterns has returned
Returned == pc \in {"ret", "done"} /\ pass = 1

\* every frame and list of rows the program holds
Tables == {data, df, ret1}

(***************************************************************************)
(* Properties                                                              *)
(***************************************************************************)
\* C1: after add_sequential_patterns returns, for every tracked user and every
\* pair of the user's rows adjacent in index order (the first and second row
\* included) with first amount <= 10, second amount > 10000 and timestamps
\* within 300 s, the second row has is_fraud = 1 and fraud_type = micropay_scam.
C1_EveryQualifyingPairRelabelled ==
    Returned =>
        \A u \in TrackedOf(df_in) : \A pr \in AdjacentPairs(df_in, u) :
            Qualifies(df_in, pr[1], pr[2]) =>
                /\ df[pr[2]].is_fraud = 1
                /\ df[pr[2]].fraud_type = "micropay_scam"

\* C2: add_sequential_patterns writes micropay_scam only on the second row of
\* an index-adjacent pair of a tracked user whose amounts qualify and whose
\* timestamps differ by at most 300 s in absolute value.
C2_RelabelOnlyWithin300s ==
    Returned =>
        \A idx \in micropay_indices :
            \E u \in TrackedOf(df_in) : \E pr \in AdjacentPairs(df_in, u) :
                pr[2] = idx + 1 /\ Qualifies(df_in, pr[1], pr[2])

\* C3 as stated: after add_sequential_patterns returns, every tracked user has
\* at least one row with fraud_type = velocity_attack.
C3_VelocityLabelSurvives ==
    Returned =>
        \A u \in TrackedOf(df_in) :
            \E k \in RowsOf(df, u) : df[k].fraud_type = "velocity_attack"

\* C3 as amended: after add_sequential_patterns returns, every tracked user has
\* at least one sampled row, and every sampled row has is_fraud = 1 and
\* fraud_type velocity_attack, or micropay_scam when the micropay pass wrote it
\* afterwards.
C3_SampledRowStaysFraud ==
    Returned =>
        /\ \A u \in TrackedOf(df_in) : \E k \in RowsOf(df, u) : (k - 1) \in fraud_indices
        /\ \A idx \in fraud_indices :
            /\ df[idx + 1].is_fraud = 1
            /\ \/ df[idx + 1].fraud_type = "velocity_attack"
               \/ idx \in micropay_indices /\ df[idx + 1].fraud_type = "micropay_scam"

\* a tracked user whose only sampled row was relabelled micropay_scam
C3_Witness ==
    /\ Returned
    /\ \E u \in TrackedOf(df_in) :
        /\ \A k \in RowsOf(df, u) : df[k].fraud_type # "velocity_attack"
        /\ \E k \in RowsOf(df, u) : (k - 1) \in fraud_indices \cap micropay_indices

\* C4: two independent runs with the same seed, FRAUD_RATE and N write the same
\* CSV, column for column.
C4_RunsIdentical ==
    (run = 2 /\ pc = "done") => out = out1

\* C5: in every table the program holds, is_fraud = 0 iff fraud_type is
\* legitimate and a fraudulent row carries one of the four archetypes; while
\* add_sequential_patterns runs and after it returns no row flagged in its
\* input is unflagged.
C5_LabelConsistency ==
    /\ \A t \in Tables : \A k \in 1..Len(t) :
        /\ t[k].is_fraud \in {0, 1}
        /\ t[k].is_fraud = 0 <=> t[k].fraud_type = "legitimate"
        /\ t[k].is_fraud = 1 => t[k].fraud_type \in Archetypes
    /\ pc \in {"user", "micropay", "ret", "done"} =>
        /\ Len(df) = Len(df_in)
        /\ \A k \in 1..Len(df_in) :
            /\ df_in[k].is_fraud = 1 => df[k].is_fraud = 1
            /\ df_in[k].fraud_type # "legitimate" => df[k].fraud_type # "legitimate"

\* the injector has flagged a row that was generated legitimate, and has
\* relabelled a row that was generated fraudulent
C5_Witness ==
    /\ Returned
    /\ \E k \in 1..Len(df) : df_in[k].is_fraud = 0 /\ df[k].is_fraud = 1
    /\ \E k \in 1..Len(df) : df_in[k].is_fraud = 1 /\ df[k].fraud_type # df_in[k].fraud_type

\* C6: add_sequential_patterns keeps the number and order of rows and the eight
\* fields other than is_fraud and fraud_type of every row, and keeps every row
\* of a user that is not tracked whole.
C6_Frame ==
    pc \in {"user", "micropay", "ret", "done"} =>
        /\ Len(df) = Len(df_in)
        /\ \A k \in 1..Len(df_in) :
            /\ df[k].transaction_id = df_in[k].transaction_id
            /\ df[k].user_id = df_in[k].user_id
            /\ df[k].timestamp = df_in[k].timestamp
            /\ df[k].amount = df_in[k].amount
            /\ df[k].recipient_id = df_in[k].recipient_id
            /\ df[k].transaction_type = df_in[k].transaction_type
            /\ df[k].device_id = df_in[k].device_id
            /\ df[k].location = df_in[k].location
            /\ df[k] # df_in[k] => Tracked(df_in, df_in[k].user_id)

\* the call returned having changed a row, on a frame that also holds a user
\* with more than 10 rows who is not among the first 100
C6_Witness ==
    /\ Returned
    /\ df # df_in
    /\ \E u \in UsersOf(df_in) :
        Cardinality(RowsOf(df_in, u)) > 10 /\ EncounterRank(df_in, u) >= 100

\* C7: a second call of add_sequential_patterns on the frame the first call
\* returned returns a frame equal to it.
C7_Idempotent ==
    (pc = "ret" /\ pass = 2) => df = ret1

\* the second call sampled a row and the micropay pass wrote that same row
C7_Witness ==
    /\ pc = "ret"
    /\ pass = 2
    /\ fraud_indices \cap micropay_indices # {}

\* the eight digits of n, most significant first
IdDigits(n) == [j \in 1..8 |-> (n \div (10 ^ (8 - j))) % 10]

\* C8: the frame returned by generate_synthetic_transactions has exactly N
\* rows, row i carries the id built from i, the ids are pairwise distinct, and
\* add_sequential_patterns keeps all of this.
C8_CountAndIds ==
    pc \notin {"main", "gen"} =>
        /\ Len(df) = n_samples
        /\ \A k \in 1..Len(df) : df[k].transaction_id = <<"TXN_">> \o IdDigits(k - 1)
        /\ \A j, k \in 1..Len(df) : j # k => df[j].transaction_id # df[k].transaction_id

\* add_sequential_patterns returned a changed frame of more than 10 rows
C8_Witness ==
    /\ Returned
    /\ Len(df) > 10
    /\ df # df_in

\* C9: every row in every table the program holds has amount > 0, and every
\* legitimate row has its amount in [10, 100000].
C9_AmountPositive ==
    \A t \in Tables : \A k \in 1..Len(t) :
        /\ t[k].amount > 0
        /\ t[k].fraud_type = "legitimate" =>
            (10 * 100 <= t[k].amount /\ t[k].amount <= 100000 * 100)

\* a returned frame with a legitimate row on the floor of 10.00 and a
\* micropay_scam row of 1.00, the least amount any branch yields
C9_Witness ==
    /\ Returned
    /\ \E k \in 1..Len(df) : df[k].fraud_type = "legitimate" /\ df[k].amount = 10 * 100
    /\ \E k \in 1..Len(df) : df[k].fraud_type = "micropay_scam" /\ df[k].amount = 100

\* C10: with FRAUD_RATE = 0 and N <= 10 every row of every table is
\* legitimate, with is_fraud = 0.
C10_NoFraudAtRateZero ==
    (FRAUD_RATE = 0 /\ n_samples <= 10) =>
        \A t \in Tables : \A k \in 1..Len(t) :
            t[k].is_fraud = 0 /\ t[k].fraud_type = "legitimate"

\* add_sequential_patterns returned on 10 rows of a single user at rate 0
C10_Witness ==
    /\ Returned
    /\ FRAUD_RATE = 0
    /\ n_samples = 10
    /\ Len(df) = 10
    /\ Cardinality(UsersOf(df)) = 1
====
